---- MODULE Spec2Model ----
(***************************************************************************)
(* configmaster (src/main.go): a daemon that watches ConfigMap and Secret  *)
(* resources and, after a debounce delay, patches the Deployments that     *)
(* refer to them.                                                          *)
(*                                                                         *)
(* Goroutines of the program:                                              *)
(*   - one per watch stream (main.go:84-112), running delayedUpdate for    *)
(*     every MODIFIED event;                                               *)
(*   - one per timer expiry (time.AfterFunc runs its function in its own   *)
(*     goroutine): the change callback (main.go:123-126) and the update    *)
(*     callback (main.go:179-182).                                         *)
(* The maps changeTimers and updateTimers are shared by all of them with   *)
(* no lock, so every map access is a step of its own and the steps of the  *)
(* goroutines interleave freely.                                           *)
(*                                                                         *)
(* Time: a discrete clock.  A timer fires at its deadline.  A call to the   *)
(* cluster (Watch, List, Get, Patch) blocks its goroutine for as long as   *)
(* the server takes: the clock advances while calls are pending, timers    *)
(* fire and events arrive meanwhile.  The steps a goroutine takes between  *)
(* two calls (a map access, Reset, AfterFunc, building the patch) are      *)
(* below the clock's resolution: the clock does not advance while such a   *)
(* step is pending.  Races are the interleavings of the steps that happen  *)
(* at one instant.                                                         *)
(***************************************************************************)
EXTENDS Integers, Sequences, FiniteSets, Bags, TLC

\* ------------------------------------------------------------------ bounds
\* Last instant of the clock.
MaxTime == 5
\* Watch events delivered over both streams together.
MaxEvents == 2
\* Watch events of the one resource that changes in a burst.
MaxBurst == 3

\* Highest resource version another actor gives a Deployment.
MaxVersion == 2

\* CONFIGMASTER_DELAY=2: the debounce delay in clock units (seconds).
delay == 2

\* ------------------------------------------------------------------- data
\* A nil pointer of the Go program.
Nil == [nil |-> TRUE]

\* Resource names are strings, modelled as sequences of characters;
\* NameAB has NameA as a proper prefix.
NameA == <<"a">>
NameAB == <<"a", "b">>
Names == {NameA, NameAB}

\* The two watched kinds; also the names of the two stream goroutines.
Kinds == {"ConfigMap", "Secret"}

\* watch.EventType values of the k8s watch API.
EventTypes == {"ADDED", "MODIFIED", "DELETED", "ERROR"}

\* type ChangeType struct { Type string; Name string }
ChangeType == [Type : Kinds, Name : Names]

\* Mutant of ChangeKey: the timers are keyed by the name alone.
ChangeKeyByName(change) == [Type |-> "ConfigMap", Name |-> change.Name]

\* main.go:34: a ChangeType is the key of changeTimers; Go compares both
\* fields of the struct.
ChangeKey(change) == change

\* Mutant of Deployment: the key does not follow the listed resource version.
DeploymentByName(name, version) == [Name |-> name, ResourceVersion |-> 1]

\* type Deployment struct { Name string; Options meta.GetOptions }
\* (only Options.ResourceVersion is ever set).
Deployment(name, version) == [Name |-> name, ResourceVersion |-> version]

\* Builders for the parts of an apps.Deployment that the program reads.
EnvFromSource(cm, sec) == [ConfigMapRef |-> cm, SecretRef |-> sec]
Ref(name) == [Name |-> name]
EnvVar(valueFrom) == [ValueFrom |-> valueFrom]
EnvVarSource(cm, sec) == [ConfigMapKeyRef |-> cm, SecretKeyRef |-> sec]
Container(envFrom, env) == [EnvFrom |-> envFrom, Env |-> env]
AppsDeployment(name, version, containers) ==
  [Name |-> name, ResourceVersion |-> version, Containers |-> containers,
   Annotations |-> Nil, TemplateAnnotations |-> Nil, Replicas |-> 1]

\* The Deployments of the namespace when the daemon starts, in the order List
\* returns them:
\*   web: one container importing ConfigMap "ab" wholesale and reading one key
\*        of Secret "a";
\*   api: two containers, both referring to ConfigMap "a" (a key reference in
\*        the first, a whole import in the second);
\*   db:  an environment variable with a literal value, no reference.
InitialDeployments ==
  << AppsDeployment("web", 1,
       << Container(<< EnvFromSource(Ref(NameAB), Nil) >>,
                    << EnvVar(EnvVarSource(Nil, Ref(NameA))) >>) >>),
     AppsDeployment("api", 1,
       << Container(<< >>,
                    << EnvVar(Nil), EnvVar(EnvVarSource(Ref(NameA), Nil)) >>),
          Container(<< EnvFromSource(Ref(NameA), Nil) >>, << >>) >>),
     AppsDeployment("db", 1,
       << Container(<< >>, << EnvVar(Nil) >>) >>) >>

\* ---------------------------------------------- findAndQueueDeployments scan
\* Mutant of MatchEnvFrom: the names are compared as prefixes
\* (strings.HasPrefix(ref.Name, change.Name)) instead of for equality.
IsPrefix(p, q) == Len(p) <= Len(q) /\ SubSeq(q, 1, Len(p)) = p
MatchEnvFromPrefix(change, env) ==
  \/ /\ change.Type = "ConfigMap"
     /\ env.ConfigMapRef # Nil
     /\ IsPrefix(change.Name, env.ConfigMapRef.Name)
  \/ /\ change.Type = "Secret"
     /\ env.SecretRef # Nil
     /\ IsPrefix(change.Name, env.SecretRef.Name)

\* main.go:140 and main.go:145: one envFrom entry against the change.
MatchEnvFrom(change, env) ==
  \/ /\ change.Type = "ConfigMap"
     /\ env.ConfigMapRef # Nil
     /\ env.ConfigMapRef.Name = change.Name
  \/ /\ change.Type = "Secret"
     /\ env.SecretRef # Nil
     /\ env.SecretRef.Name = change.Name

\* Mutant of MatchEnv: the kind of the change is not compared.
MatchEnvAnyKind(change, env) ==
  /\ env.ValueFrom # Nil
  /\ \/ /\ env.ValueFrom.ConfigMapKeyRef # Nil
        /\ env.ValueFrom.ConfigMapKeyRef.Name = change.Name
     \/ /\ env.ValueFrom.SecretKeyRef # Nil
        /\ env.ValueFrom.SecretKeyRef.Name = change.Name

\* main.go:152 and main.go:157: one env entry against the change.
MatchEnv(change, env) ==
  \/ /\ change.Type = "ConfigMap"
     /\ env.ValueFrom # Nil
     /\ env.ValueFrom.ConfigMapKeyRef # Nil
     /\ env.ValueFrom.ConfigMapKeyRef.Name = change.Name
  \/ /\ change.Type = "Secret"
     /\ env.ValueFrom # Nil
     /\ env.ValueFrom.SecretKeyRef # Nil
     /\ env.ValueFrom.SecretKeyRef.Name = change.Name

\* Mutant of ScanContainers: a match leaves the container (`break`), not the
\* deployment, so every container with a matching entry calls queueDeployment.
RECURSIVE ScanContainersAll(_, _, _)
ScanContainersAll(change, containers, i) ==
  IF i > Len(containers) THEN 0
  ELSE (IF \/ \E k \in DOMAIN containers[i].EnvFrom :
                MatchEnvFrom(change, containers[i].EnvFrom[k])
           \/ \E k \in DOMAIN containers[i].Env :
                MatchEnv(change, containers[i].Env[k])
        THEN 1 ELSE 0)
       + ScanContainersAll(change, containers, i + 1)

\* The number of queueDeployment calls the loops of main.go:138-162 make for
\* one deployment: the containers in order, in each the envFrom entries and
\* then the env entries; the first matching entry calls queueDeployment and
\* `continue deploymentLoop` leaves the deployment.
RECURSIVE ScanContainers(_, _, _)
ScanContainers(change, containers, i) ==
  IF i > Len(containers) THEN 0
  ELSE IF \/ \E k \in DOMAIN containers[i].EnvFrom :
               MatchEnvFrom(change, containers[i].EnvFrom[k])
          \/ \E k \in DOMAIN containers[i].Env :
               MatchEnv(change, containers[i].Env[k])
       THEN 1
       ELSE ScanContainers(change, containers, i + 1)

\* The queueDeployment calls of one findAndQueueDeployments(change) over the
\* listed items, in call order (main.go:136-163).
RECURSIVE QueueCalls(_, _)
QueueCalls(change, items) ==
  IF items = << >> THEN << >>
  ELSE [k \in 1..ScanContainers(change, Head(items).Containers, 1) |-> Head(items)]
       \o QueueCalls(change, Tail(items))

\* ------------------------------------------------------------------ state
VARIABLES
  now,           \* the clock
  fatal,         \* "none" while the process runs, else what terminated it
  stream,        \* the two stream goroutines: [pc, change, timer]
  goroutines,    \* bag of the running timer-callback goroutines
  timers,        \* the runtime's timers: id -> [fn, arg, armed, when]
  changeTimers,  \* main.go:34  map[ChangeType]*time.Timer
  updateTimers,  \* main.go:35  map[Deployment]*time.Timer
  deployments,   \* the Deployments of the namespace, as List returns them
  budget,        \* watch events still to be delivered
  log,           \* the lines written with log.Printf
  lastEvent,     \* history: the type of the last watch event received
  modified,      \* history: the descriptors of the MODIFIED events received
  notified,      \* history: descriptor -> instants of its delayedUpdate calls, in order
  burst,         \* history: descriptor -> its current burst of notifications
  settled,       \* history: descriptor -> instants of findAndQueueDeployments
  queued,        \* history: queueDeployment calls [dep, by, at]
  applied,       \* history: bag of patchDeployment calls [dep, at]
  api,           \* history: bag of cluster calls [op, name, ok], with [at] but for Watch
  patches        \* history: bag of submitted patches [name, base, target, stamp, body, at]

vars == << now, fatal, stream, goroutines, timers, changeTimers, updateTimers,
           deployments, budget, log, lastEvent, modified, notified, burst,
           settled, queued, applied, api, patches >>

hist == << lastEvent, modified, notified, burst, settled, queued, applied, api, patches >>

Range(f) == { f[x] : x \in DOMAIN f }

\* A goroutine started by a timer: fn is "change" (main.go:123-126) or
\* "update" (main.go:179-182); arg is the captured change or dep.
Goroutine(fn, pc, arg, timer, calls, obj) ==
  [fn |-> fn, pc |-> pc, arg |-> arg, timer |-> timer, calls |-> calls, obj |-> obj]

StreamIdle(pc) == [pc |-> pc, change |-> Nil, timer |-> 0]

Running == fatal = "none"

Init ==
  /\ now = 0
  /\ fatal = "none"
  /\ stream = [s \in Kinds |-> StreamIdle("watch")]
  /\ goroutines = EmptyBag
  /\ timers = << >>
  /\ changeTimers = << >>
  /\ updateTimers = << >>
  /\ deployments = InitialDeployments
  /\ budget = MaxEvents
  /\ log = {}
  /\ lastEvent = ""
  /\ modified = {}
  /\ notified = [d \in ChangeType |-> << >>]
  /\ burst = [d \in ChangeType |-> [clean |-> TRUE, first |-> -1, fires |-> 0, at |-> -1,
                                     calls |-> 0]]
  /\ settled = [d \in ChangeType |-> {}]
  /\ queued = {}
  /\ applied = EmptyBag
  /\ api = EmptyBag
  /\ patches = EmptyBag

\* ------------------------------------------------------------ time.Timer
\* time.AfterFunc(d, f): a timer that runs f in its own goroutine at now + d.
AfterFunc(fn, arg) == [fn |-> fn, arg |-> arg, armed |-> TRUE, when |-> now + delay]

\* timer.Reset(d): the timer expires d from now; a timer that has already
\* fired is armed again and runs its function once more.
Reset(t) == [t EXCEPT !.armed = TRUE, !.when = now + delay]

\* The identity the runtime gives a new timer.
NewTimer(tm) ==
  CHOOSE i \in 1..(Cardinality(DOMAIN tm) + 1) :
    i \notin DOMAIN tm /\ \A j \in 1..(i - 1) : j \in DOMAIN tm

\* Garbage collection: a timer that is not armed and that no map and no
\* goroutine refers to can never run again.
Sweep(tm, cm, um, st, gs) ==
  LET live == { id \in DOMAIN tm :
                  \/ tm[id].armed
                  \/ id \in Range(cm) \/ id \in Range(um)
                  \/ \E s \in Kinds : st[s].timer = id
                  \/ \E g \in BagToSet(gs) : g.timer = id }
  IN [id \in live |-> tm[id]]

\* Go maps.
MapDelete(m, k) == [x \in DOMAIN m \ {k} |-> m[x]]
MapStore(m, k, v) == [x \in DOMAIN m \cup {k} |-> IF x = k THEN v ELSE m[x]]

One(x) == SetToBag({x})

\* The timers after a step: tm with the garbage removed.  Used after the
\* step's other variables are set.
Collect(tm) == timers' = Sweep(tm, changeTimers', updateTimers', stream', goroutines')

\* ------------------------------------------------- unsynchronised map access
\* The number of goroutines that the records of S stand for in the bag.
Copies(S) == BagCardinality([g \in S |-> CopiesIn(g, goroutines)])

\* The goroutines whose next step writes changeTimers: a stream about to
\* insert (main.go:123) and a change callback about to delete (main.go:124).
ChangeMapWriters(except) ==
  Cardinality({ s \in Kinds \ {except} : stream[s].pc = "insert" })
  + Copies({ g \in BagToSet(goroutines) : g.fn = "change" /\ g.pc = "delete" })

\* The goroutines whose next step writes updateTimers: a change callback about
\* to insert (main.go:179) and an update callback about to delete (main.go:180).
UpdateMapWriters ==
  Copies({ g \in BagToSet(goroutines) :
             \/ g.fn = "change" /\ g.pc = "qinsert"
             \/ g.fn = "update" /\ g.pc = "delete" })

\* The goroutines whose next step reads updateTimers (main.go:174).
UpdateMapReaders ==
  Copies({ g \in BagToSet(goroutines) : g.fn = "change" /\ g.pc = "queue" })

\* The Go runtime checks for unsynchronised map access on a best-effort basis:
\* when a write overlaps another access of the same map it may stop the
\* process ("fatal error: concurrent map writes" or "concurrent map read and
\* map write").  The other outcome is that the accesses take effect one after
\* the other, which the interleaving of the steps below gives.
ConcurrentMapAccess ==
  /\ Running
  /\ \/ ChangeMapWriters("") >= 2
     \/ UpdateMapWriters >= 2
     \/ UpdateMapWriters >= 1 /\ UpdateMapReaders >= 1
  /\ fatal' = "map"
  /\ UNCHANGED << now, stream, goroutines, timers, changeTimers, updateTimers,
                  deployments, budget, log, hist >>

\* ------------------------------------------------------ stream goroutines
\* Mutant of Subscribe: a watch that cannot be opened ends its goroutine
\* (log and return) and the process runs on.
SubscribeReturn(s) ==
  /\ Running
  /\ stream[s].pc = "watch"
  /\ \E ok \in BOOLEAN :
       /\ api' = api (+) One([op |-> "watch", name |-> s, ok |-> ok])
       /\ stream' = [stream EXCEPT ![s].pc = IF ok THEN "recv" ELSE "closed"]
  /\ UNCHANGED << now, fatal, goroutines, timers, changeTimers, updateTimers,
                  deployments, budget, log, lastEvent, modified, notified, burst,
                  settled, queued, applied, patches >>

\* main.go:85-88 and main.go:100-103: open the watch; panic if it fails.
Subscribe(s) ==
  /\ Running
  /\ stream[s].pc = "watch"
  /\ \E ok \in BOOLEAN :
       /\ api' = api (+) One([op |-> "watch", name |-> s, ok |-> ok])
       /\ IF ok
            THEN /\ stream' = [stream EXCEPT ![s].pc = "recv"]
                 /\ fatal' = fatal
            ELSE /\ fatal' = "watch"
                 /\ stream' = stream
  /\ UNCHANGED << now, goroutines, timers, changeTimers, updateTimers, deployments,
                  budget, log, lastEvent, modified, notified, burst, settled, queued,
                  applied, patches >>

\* Mutant of filterFunc: every event passes.
filterFuncAll(in) == TRUE

\* main.go:80-82.
filterFunc(in) == in.Type = "MODIFIED"

\* The burst of d after a notification at this instant: a notification less
\* than delay after the previous one continues the burst; one that comes more
\* than delay after it starts a burst of its own; one exactly delay after it
\* meets the expiry of the countdown and starts a burst that is not clean.
\* `calls` counts every findAndQueueDeployments(d) since the start.
Last(seq) == seq[Len(seq)]
Notify(d) ==
  IF notified[d] # << >> /\ now - Last(notified[d]) < delay
    THEN burst[d]
    ELSE [clean |-> notified[d] = << >> \/ now - Last(notified[d]) > delay,
          first |-> now, fires |-> 0, at |-> -1, calls |-> burst[d].calls]

\* main.go:117-122: delayedUpdate up to the branch on `ok`; the lookup in
\* changeTimers and the log line.  The goroutine goes on to Reset the timer
\* it found or to insert a new one.
delayedUpdate(s, change) ==
  /\ notified' = [notified EXCEPT ![change] = Append(@, now)]
  /\ burst' = [burst EXCEPT ![change] = Notify(change)]
  /\ \/ /\ fatal' = fatal
        /\ IF ChangeKey(change) \in DOMAIN changeTimers
             THEN /\ log' = log \cup {<< "saw change to %s %s, resetting delay", change >>}
                  /\ stream' = [stream EXCEPT ![s] =
                       [pc |-> "reset", change |-> change, timer |-> changeTimers[ChangeKey(change)]]]
             ELSE /\ log' = log \cup {<< "saw change to %s %s, starting countdown", change >>}
                  /\ stream' = [stream EXCEPT ![s] =
                       [pc |-> "insert", change |-> change, timer |-> 0]]
     \/ \* the lookup overlaps another goroutine's write of changeTimers
        /\ ChangeMapWriters(s) >= 1
        /\ fatal' = "map"
        /\ UNCHANGED << log, stream >>

\* main.go:90-96 and main.go:105-111: the next event of the stream passes
\* the filter and is handed to delayedUpdate, or is dropped.
Receive(s, ev) ==
  /\ Running
  /\ stream[s].pc = "recv"
  /\ budget > 0
  /\ budget' = budget - 1
  /\ lastEvent' = ev.Type
  /\ modified' = IF ev.Type = "MODIFIED"
                   THEN modified \cup {[Type |-> s, Name |-> ev.Name]} ELSE modified
  /\ IF filterFunc(ev)
       THEN delayedUpdate(s, [Type |-> s, Name |-> ev.Name])
       ELSE UNCHANGED << fatal, stream, log, notified, burst >>
  /\ UNCHANGED << now, goroutines, timers, changeTimers, updateTimers, deployments,
                  settled, queued, applied, api, patches >>

\* Mutant of StreamReset: the timer found in the map is left as it is.
StreamResetLost(s) ==
  /\ Running
  /\ stream[s].pc = "reset"
  /\ stream' = [stream EXCEPT ![s] = StreamIdle("recv")]
  /\ UNCHANGED << now, fatal, goroutines, changeTimers, updateTimers, deployments,
                  budget, log, hist >>
  /\ Collect(timers)

\* main.go:120: timer.Reset(delay).
StreamReset(s) ==
  /\ Running
  /\ stream[s].pc = "reset"
  /\ stream' = [stream EXCEPT ![s] = StreamIdle("recv")]
  /\ UNCHANGED << now, fatal, goroutines, changeTimers, updateTimers, deployments,
                  budget, log, hist >>
  /\ Collect([timers EXCEPT ![stream[s].timer] = Reset(@)])

\* main.go:123-126: changeTimers[change] = time.AfterFunc(delay, func() {...}).
StreamInsert(s) ==
  /\ Running
  /\ stream[s].pc = "insert"
  /\ stream' = [stream EXCEPT ![s] = StreamIdle("recv")]
  /\ LET id == NewTimer(timers) IN
       /\ changeTimers' = MapStore(changeTimers, ChangeKey(stream[s].change), id)
       /\ UNCHANGED << now, fatal, goroutines, updateTimers, deployments, budget,
                       log, hist >>
       /\ Collect(MapStore(timers, id, AfterFunc("change", stream[s].change)))

\* ------------------------------------------------------------ the runtime
\* A timer reaches its deadline: the runtime starts a goroutine that runs
\* the timer's function.
Fire(id) ==
  /\ Running
  /\ id \in DOMAIN timers
  /\ timers[id].armed
  /\ timers[id].when <= now
  /\ goroutines' = goroutines (+)
       One(Goroutine(timers[id].fn, "delete", timers[id].arg, 0, << >>, Nil))
  /\ UNCHANGED << now, fatal, stream, changeTimers, updateTimers, deployments,
                  budget, log, hist >>
  /\ Collect([timers EXCEPT ![id].armed = FALSE])

\* The positions at which a callback waits for the cluster to answer: List
\* (main.go:131), Get (main.go:187) and Patch (main.go:224).
InCall == {"list", "get", "patch"}

\* No goroutine has a step of its own to take: each one waits for an event
\* (main.go:90, 105), for Watch to return (main.go:85, 100) or for the answer
\* to its call.
Waiting ==
  /\ \A g \in BagToSet(goroutines) : g.pc \in InCall
  /\ \A s \in Kinds : stream[s].pc \in {"recv", "watch"}

\* The clock advances when every goroutine waits and every timer that is due
\* has fired.
Tick ==
  /\ Running
  /\ now < MaxTime
  /\ Waiting
  /\ \A id \in DOMAIN timers : timers[id].armed => timers[id].when > now
  /\ now' = now + 1
  /\ UNCHANGED << fatal, stream, goroutines, timers, changeTimers, updateTimers,
                  deployments, budget, log, hist >>

\* ------------------------------------------------------- change callback
\* g in the bag replaced by the goroutines of next (none when it returned).
Step(g, next) == goroutines' = (goroutines (-) One(g)) (+) SetToBag(next)

\* main.go:124-125: delete(changeTimers, change), then the call of
\* findAndQueueDeployments(change).
ChangeDelete(g) ==
  /\ Running
  /\ g.fn = "change" /\ g.pc = "delete"
  /\ changeTimers' = MapDelete(changeTimers, ChangeKey(g.arg))
  /\ Step(g, {[g EXCEPT !.pc = "list"]})
  /\ settled' = [settled EXCEPT ![g.arg] = @ \cup {now}]
  /\ burst' = [burst EXCEPT ![g.arg].fires = @ + 1, ![g.arg].at = now,
                            ![g.arg].calls = @ + 1]
  /\ UNCHANGED << now, fatal, stream, updateTimers, deployments, budget, log,
                  lastEvent, modified, notified, queued, applied, api, patches >>
  /\ Collect(timers)

\* main.go:131-134: list the Deployments; panic if the call fails.  The scan
\* of main.go:136-163 reads only the listed items, so the queueDeployment
\* calls it will make are known once the list is there.
findAndQueueDeployments(g) ==
  /\ Running
  /\ g.fn = "change" /\ g.pc = "list"
  /\ \E ok \in BOOLEAN :
       /\ api' = api (+) One([op |-> "list", name |-> "deployments", ok |-> ok, at |-> now])
       /\ IF ok
            THEN /\ LET calls == QueueCalls(g.arg, deployments) IN
                      Step(g, IF calls = << >> THEN {}
                              ELSE {[g EXCEPT !.pc = "queue", !.calls = calls]})
                 /\ fatal' = fatal
            ELSE /\ fatal' = "list"
                 /\ goroutines' = goroutines
  /\ UNCHANGED << now, stream, timers, changeTimers, updateTimers, deployments,
                  budget, log, lastEvent, modified, notified, burst, settled, queued,
                  applied, patches >>

\* The goroutine after the queueDeployment call at the head of its calls
\* returned: the scan goes on to the next call, or the callback is over.
Queued(g) ==
  IF Tail(g.calls) = << >> THEN {}
  ELSE {[g EXCEPT !.pc = "queue", !.calls = Tail(@), !.timer = 0]}

\* main.go:166-179: queueDeployment up to the branch on `ok`; the key, the
\* lookup in updateTimers and the log line.
queueDeployment(g) ==
  /\ Running
  /\ g.fn = "change" /\ g.pc = "queue"
  /\ LET deployment == Head(g.calls)
         dep == Deployment(deployment.Name, deployment.ResourceVersion)
     IN /\ queued' = queued \cup {[dep |-> dep, by |-> g.arg, at |-> now]}
        /\ IF dep \in DOMAIN updateTimers
             THEN /\ log' = log \cup
                       {<< "resetting timer on queued update to deployment %s", deployment.Name >>}
                  /\ Step(g, {[g EXCEPT !.pc = "qreset", !.timer = updateTimers[dep]]})
             ELSE /\ log' = log \cup
                       {<< "queuing update to deployment %s", deployment.Name >>}
                  /\ Step(g, {[g EXCEPT !.pc = "qinsert"]})
  /\ UNCHANGED << now, fatal, stream, timers, changeTimers, updateTimers,
                  deployments, budget, lastEvent, modified, notified, burst, settled,
                  applied, api, patches >>

\* main.go:176: timer.Reset(delay).
QueueReset(g) ==
  /\ Running
  /\ g.fn = "change" /\ g.pc = "qreset"
  /\ Step(g, Queued(g))
  /\ UNCHANGED << now, fatal, stream, changeTimers, updateTimers, deployments,
                  budget, log, hist >>
  /\ Collect([timers EXCEPT ![g.timer] = Reset(@)])

\* Mutant of QueueInsert: the update timer is created with no delay.
QueueInsertNoDelay(g) ==
  /\ Running
  /\ g.fn = "change" /\ g.pc = "qinsert"
  /\ Step(g, Queued(g))
  /\ LET deployment == Head(g.calls)
         dep == Deployment(deployment.Name, deployment.ResourceVersion)
         id == NewTimer(timers)
     IN /\ updateTimers' = MapStore(updateTimers, dep, id)
        /\ UNCHANGED << now, fatal, stream, changeTimers, deployments, budget,
                        log, hist >>
        /\ Collect(MapStore(timers, id, [AfterFunc("update", dep) EXCEPT !.when = now]))

\* main.go:179-182: updateTimers[dep] = time.AfterFunc(delay, func() {...}).
QueueInsert(g) ==
  /\ Running
  /\ g.fn = "change" /\ g.pc = "qinsert"
  /\ Step(g, Queued(g))
  /\ LET deployment == Head(g.calls)
         dep == Deployment(deployment.Name, deployment.ResourceVersion)
         id == NewTimer(timers)
     IN /\ updateTimers' = MapStore(updateTimers, dep, id)
        /\ UNCHANGED << now, fatal, stream, changeTimers, deployments, budget,
                        log, hist >>
        /\ Collect(MapStore(timers, id, AfterFunc("update", dep)))

\* ------------------------------------------------------- update callback
\* Mutant of UpdateDelete: the entry is left in updateTimers.
UpdateDeleteKeep(g) ==
  /\ Running
  /\ g.fn = "update" /\ g.pc = "delete"
  /\ Step(g, {[g EXCEPT !.pc = "get"]})
  /\ applied' = applied (+) One([dep |-> g.arg, at |-> now])
  /\ UNCHANGED << now, fatal, stream, changeTimers, updateTimers, deployments,
                  budget, log, lastEvent, modified, notified, burst, settled,
                  queued, api, patches >>
  /\ Collect(timers)

\* main.go:180-181: delete(updateTimers, dep), then the call of
\* patchDeployment(dep).
UpdateDelete(g) ==
  /\ Running
  /\ g.fn = "update" /\ g.pc = "delete"
  /\ updateTimers' = MapDelete(updateTimers, g.arg)
  /\ Step(g, {[g EXCEPT !.pc = "get"]})
  /\ applied' = applied (+) One([dep |-> g.arg, at |-> now])
  /\ UNCHANGED << now, fatal, stream, changeTimers, deployments, budget, log,
                  lastEvent, modified, notified, burst, settled, queued, api, patches >>
  /\ Collect(timers)

\* The Deployment of that name in the namespace.
Find(name) == deployments[CHOOSE i \in DOMAIN deployments : deployments[i].Name = name]

\* The annotation patchDeployment writes (main.go:209-210).
LastUpdate == "configmaster/last.update"

\* Mutant of SetAnnotation: the map is replaced by one that holds the
\* annotation alone.
SetAnnotationFresh(annotations, value) == [k \in {LastUpdate} |-> value]

\* main.go:199-210: the annotation set in a map that is created when nil.
SetAnnotation(annotations, value) ==
  IF annotations = Nil THEN [k \in {LastUpdate} |-> value]
  ELSE MapStore(annotations, LastUpdate, value)

\* main.go:207: time.Now().Format(time.RFC3339), a timestamp in seconds.
Timestamp == now

\* main.go:199-210: the fetched Deployment with both annotations set.
Updated(dep) ==
  [dep EXCEPT !.Annotations = SetAnnotation(@, Timestamp),
              !.TemplateAnnotations = SetAnnotation(@, Timestamp)]

\* The variables of patchDeployment after main.go:193-212: the fetched
\* Deployment as it came (`current`), the time read at main.go:207 (`now`)
\* and the Deployment with both annotations set (`updated`).
Marshalled(dep) == [current |-> dep, now |-> Timestamp, updated |-> Updated(dep)]

\* The outcomes of main.go:193-222, the library calls between Get and Patch:
\* the patch is there, json.Marshal returned an error (main.go:194-197,
\* 213-216) or CreateTwoWayMergePatch did (main.go:219-222).  Which one it is
\* depends on parts of the fetched Deployment that the program never reads
\* (a list entry that lacks its merge key makes the diff fail).
Prepared == {"patch", "marshal", "generate"}

\* The line logged when the patch could not be prepared (main.go:195, 214,
\* 220).
PrepareLine(outcome, name) ==
  IF outcome = "marshal" THEN << "error marshaling deployment %s: %+v", name >>
  ELSE << "error generating patch for deployment %s: %+v", name >>

\* Mutant of patchDeployment: a failed Get panics, as a failed List does.
patchDeploymentPanic(g) ==
  /\ Running
  /\ g.fn = "update" /\ g.pc = "get"
  /\ \E ok \in BOOLEAN :
       /\ api' = api (+) One([op |-> "get", name |-> g.arg.Name, ok |-> ok, at |-> now])
       /\ IF ok
            THEN /\ \E outcome \in Prepared :
                      IF outcome = "patch"
                        THEN /\ Step(g, {[g EXCEPT !.pc = "patch",
                                                     !.obj = Marshalled(Find(g.arg.Name))]})
                             /\ log' = log
                        ELSE /\ Step(g, {})
                             /\ log' = log \cup {PrepareLine(outcome, g.arg.Name)}
                 /\ fatal' = fatal
            ELSE /\ goroutines' = goroutines
                 /\ log' = log
                 /\ fatal' = "get"
  /\ UNCHANGED << now, stream, timers, changeTimers, updateTimers,
                  deployments, budget, lastEvent, modified, notified, burst, settled,
                  queued, applied, patches >>

\* main.go:187-222: the Get call returns; log and return if it failed, else
\* marshal the Deployment, set the annotations to the current time, marshal
\* it again and build the patch; log and return if one of these failed.
patchDeployment(g) ==
  /\ Running
  /\ g.fn = "update" /\ g.pc = "get"
  /\ \E ok \in BOOLEAN :
       /\ api' = api (+) One([op |-> "get", name |-> g.arg.Name, ok |-> ok, at |-> now])
       /\ IF ok
            THEN \E outcome \in Prepared :
                   IF outcome = "patch"
                     THEN /\ Step(g, {[g EXCEPT !.pc = "patch",
                                                  !.obj = Marshalled(Find(g.arg.Name))]})
                          /\ log' = log
                     ELSE /\ Step(g, {})
                          /\ log' = log \cup {PrepareLine(outcome, g.arg.Name)}
            ELSE /\ Step(g, {})
                 /\ log' = log \cup {<< "error retrieving deployment %s: %+v", g.arg.Name >>}
  /\ UNCHANGED << now, fatal, stream, timers, changeTimers, updateTimers,
                  deployments, budget, lastEvent, modified, notified, burst, settled,
                  queued, applied, patches >>

\* The fields of a Deployment that hold a map of annotations.
MapFields == {"Annotations", "TemplateAnnotations"}

\* The entries of map `updated` that `current` lacks or holds with another
\* value (no entry is ever removed by the program).
MapDiff(current, updated) ==
  LET cur == IF current = Nil THEN << >> ELSE current
  IN [k \in { x \in DOMAIN updated : x \notin DOMAIN cur \/ cur[x] # updated[x] }
        |-> updated[k]]

\* main.go:218: strategicpatch.CreateTwoWayMergePatch(current, updated, ...):
\* the fields of updated that differ from current; of a map, the entries that
\* differ.
CreateTwoWayMergePatch(current, updated) ==
  [f \in { x \in DOMAIN updated : current[x] # updated[x] } |->
     IF f \in MapFields THEN MapDiff(current[f], updated[f]) ELSE updated[f]]

\* The cluster applying a merge patch to a Deployment: the fields of the
\* patch replace the Deployment's, maps are merged entry by entry, and the
\* resource version changes when the Deployment does.
Merge(dep, patch) ==
  LET merged ==
        [f \in DOMAIN dep |->
           IF f \notin DOMAIN patch THEN dep[f]
           ELSE IF f \in MapFields
             THEN [k \in (IF dep[f] = Nil THEN {} ELSE DOMAIN dep[f]) \cup DOMAIN patch[f] |->
                     IF k \in DOMAIN patch[f] THEN patch[f][k] ELSE dep[f][k]]
           ELSE patch[f]]
  IN IF merged = dep THEN dep
     ELSE [merged EXCEPT !.ResourceVersion = @ + 1]

\* main.go:224-230: the Patch call, with the patch built at main.go:218 from
\* `current` and `updated`, and the log line of its outcome.  The cluster
\* applies the patch to the Deployment as it is when the call is served.
PatchSubmit(g) ==
  /\ Running
  /\ g.fn = "update" /\ g.pc = "patch"
  /\ Step(g, {})
  /\ LET name == g.obj.current.Name
         patch == CreateTwoWayMergePatch(g.obj.current, g.obj.updated) IN
     \E ok \in BOOLEAN :
       /\ api' = api (+) One([op |-> "patch", name |-> name, ok |-> ok, at |-> now])
       /\ IF ok
            THEN /\ deployments' = [i \in DOMAIN deployments |->
                       IF deployments[i].Name = name
                         THEN Merge(deployments[i], patch) ELSE deployments[i]]
                 /\ patches' = patches (+)
                       One([name |-> name, base |-> g.obj.current,
                            target |-> g.obj.updated, stamp |-> g.obj.now,
                            body |-> patch, at |-> now])
                 /\ log' = log \cup {<< "patched deployment %s", name >>}
            ELSE /\ UNCHANGED << deployments, patches >>
                 /\ log' = log \cup {<< "error patching deployment %s: %+v", name >>}
  /\ UNCHANGED << now, fatal, stream, timers, changeTimers, updateTimers, budget,
                  lastEvent, modified, notified, burst, settled, queued, applied >>

\* ------------------------------------------------------- the other actors
\* Another actor of the cluster changes Deployment i (it scales it): the
\* Deployment gets a new resource version.  List (main.go:131) and Get
\* (main.go:187) return the Deployment as it is when they are answered.
ExternalUpdate(i) ==
  /\ Running
  /\ deployments[i].ResourceVersion < MaxVersion
  /\ deployments' = [deployments EXCEPT ![i].Replicas = @ + 1,
                                        ![i].ResourceVersion = @ + 1]
  /\ UNCHANGED << now, fatal, stream, goroutines, timers, changeTimers,
                  updateTimers, budget, log, hist >>

\* ------------------------------------------------------- the specification
\* The names of the resources of each kind that change while the daemon runs.
Watched(s) == IF s = "ConfigMap" THEN {NameA, NameAB} ELSE {NameA}
Event(s) == [Type : EventTypes, Name : Watched(s)]

Next ==
  \/ \E s \in Kinds : Subscribe(s)
  \/ \E s \in Kinds : \E ev \in Event(s) : Receive(s, ev)
  \/ \E s \in Kinds : StreamReset(s)
  \/ \E s \in Kinds : StreamInsert(s)
  \/ \E id \in DOMAIN timers : Fire(id)
  \/ \E g \in BagToSet(goroutines) : ChangeDelete(g)
  \/ \E g \in BagToSet(goroutines) : findAndQueueDeployments(g)
  \/ \E g \in BagToSet(goroutines) : queueDeployment(g)
  \/ \E g \in BagToSet(goroutines) : QueueReset(g)
  \/ \E g \in BagToSet(goroutines) : QueueInsert(g)
  \/ \E g \in BagToSet(goroutines) : UpdateDelete(g)
  \/ \E g \in BagToSet(goroutines) : patchDeployment(g)
  \/ \E g \in BagToSet(goroutines) : PatchSubmit(g)
  \/ ConcurrentMapAccess
  \/ Tick

Spec == Init /\ [][Next]_vars

\* ------------------------------------------------ the scan on any Deployment
\* A second specification for the dependency scan: the daemon receives one
\* watch event, and the namespace holds Deployment web with one or two
\* containers drawn from ScanContainerSet (the second one from ScanSecondSet),
\* followed by Deployment api.
ScanRefs == {Nil, Ref(NameA), Ref(NameAB)}
ScanEnvFrom ==
  { << >>, << EnvFromSource(Ref(NameA), Ref(NameAB)) >> }
  \cup { << EnvFromSource(r, Nil) >> : r \in ScanRefs }
  \cup { << EnvFromSource(Nil, r) >> : r \in ScanRefs \ {Nil} }
ScanEnv ==
  { << >>, << EnvVar(Nil) >> }
  \cup { << EnvVar(EnvVarSource(r, Nil)) >> : r \in ScanRefs }
  \cup { << EnvVar(EnvVarSource(Nil, r)) >> : r \in ScanRefs \ {Nil} }
ScanContainerSet == { Container(ef, e) : ef \in ScanEnvFrom, e \in ScanEnv }
\* A second container holds one entry at most.
ScanSecondSet ==
  { c \in ScanContainerSet : c.EnvFrom = << >> \/ c.Env = << >> }
ScanDeployments ==
  { << AppsDeployment("web", 1, cs),
       AppsDeployment("api", 1,
         << Container(<< >>, << EnvVar(EnvVarSource(Ref(NameA), Nil)) >>) >>) >> :
      cs \in { << c >> : c \in ScanContainerSet }
             \cup { << c1, c2 >> : c1 \in ScanContainerSet, c2 \in ScanSecondSet } }

ScanInit ==
  /\ now = 0
  /\ fatal = "none"
  /\ stream = [s \in Kinds |-> StreamIdle("watch")]
  /\ goroutines = EmptyBag
  /\ timers = << >>
  /\ changeTimers = << >>
  /\ updateTimers = << >>
  /\ deployments \in ScanDeployments
  /\ budget = 1
  /\ log = {}
  /\ lastEvent = ""
  /\ modified = {}
  /\ notified = [d \in ChangeType |-> << >>]
  /\ burst = [d \in ChangeType |-> [clean |-> TRUE, first |-> -1, fires |-> 0, at |-> -1,
                                     calls |-> 0]]
  /\ settled = [d \in ChangeType |-> {}]
  /\ queued = {}
  /\ applied = EmptyBag
  /\ api = EmptyBag
  /\ patches = EmptyBag

\* The steps of Next that one event can lead to (no timer is ever found in a
\* map again, so no Reset is reached).
ScanNext ==
  \/ \E s \in Kinds : Subscribe(s)
  \/ \E s \in Kinds : \E ev \in Event(s) : Receive(s, ev)
  \/ \E s \in Kinds : StreamInsert(s)
  \/ \E id \in DOMAIN timers : Fire(id)
  \/ \E g \in BagToSet(goroutines) : ChangeDelete(g)
  \/ \E g \in BagToSet(goroutines) : findAndQueueDeployments(g)
  \/ \E g \in BagToSet(goroutines) : queueDeployment(g)
  \/ \E g \in BagToSet(goroutines) : QueueInsert(g)
  \/ \E g \in BagToSet(goroutines) : UpdateDelete(g)
  \/ \E g \in BagToSet(goroutines) : patchDeployment(g)
  \/ \E g \in BagToSet(goroutines) : PatchSubmit(g)
  \/ ConcurrentMapAccess
  \/ Tick

ScanSpec == ScanInit /\ [][ScanNext]_vars

\* ------------------------------------------------- the daemon left to run
\* A specification for what the daemon does once the events stop: the watch
\* events arrive up to delay before MaxTime, and the clock goes on for as
\* long as a timer is armed.  The Go scheduler runs every goroutine that can run, the runtime
\* fires every timer that is due and time passes: weak fairness on the steps
\* of the program.  The events and the runtime's abort on a map access that
\* overlaps a write are under no such obligation.
LiveReceive(s, ev) ==
  /\ now + delay <= MaxTime
  /\ Receive(s, ev)

LiveTick ==
  /\ Running
  /\ now < MaxTime \/ \E id \in DOMAIN timers : timers[id].armed
  /\ Waiting
  /\ \A id \in DOMAIN timers : timers[id].armed => timers[id].when > now
  /\ now' = now + 1
  /\ UNCHANGED << fatal, stream, goroutines, timers, changeTimers, updateTimers,
                  deployments, budget, log, hist >>

Program ==
  \/ \E s \in Kinds : Subscribe(s)
  \/ \E s \in Kinds : StreamReset(s)
  \/ \E s \in Kinds : StreamInsert(s)
  \/ \E id \in DOMAIN timers : Fire(id)
  \/ \E g \in BagToSet(goroutines) : ChangeDelete(g)
  \/ \E g \in BagToSet(goroutines) : findAndQueueDeployments(g)
  \/ \E g \in BagToSet(goroutines) : queueDeployment(g)
  \/ \E g \in BagToSet(goroutines) : QueueReset(g)
  \/ \E g \in BagToSet(goroutines) : QueueInsert(g)
  \/ \E g \in BagToSet(goroutines) : UpdateDelete(g)
  \/ \E g \in BagToSet(goroutines) : patchDeployment(g)
  \/ \E g \in BagToSet(goroutines) : PatchSubmit(g)
  \/ LiveTick

LiveNext ==
  \/ \E s \in Kinds : \E ev \in Event(s) : LiveReceive(s, ev)
  \/ Program
  \/ ConcurrentMapAccess

LiveSpec == Init /\ [][LiveNext]_vars /\ WF_vars(Program)

\* ------------------------------------------ a Deployment that is edited
\* A specification for the keys of updateTimers: while the daemon
\* runs, another actor edits the Deployments.  The watch events are the
\* modifications of the two resources that Deployment web refers to.
\* The Deployment the other actor edits: web, the first of the list.
Edited == {1}

EditEvent(s) ==
  [Type : {"MODIFIED"}, Name : IF s = "ConfigMap" THEN {NameAB} ELSE {NameA}]

EditNext ==
  \/ \E s \in Kinds : Subscribe(s)
  \/ \E s \in Kinds : \E ev \in EditEvent(s) : Receive(s, ev)
  \/ \E s \in Kinds : StreamReset(s)
  \/ \E s \in Kinds : StreamInsert(s)
  \/ \E id \in DOMAIN timers : Fire(id)
  \/ \E g \in BagToSet(goroutines) : ChangeDelete(g)
  \/ \E g \in BagToSet(goroutines) : findAndQueueDeployments(g)
  \/ \E g \in BagToSet(goroutines) : queueDeployment(g)
  \/ \E g \in BagToSet(goroutines) : QueueReset(g)
  \/ \E g \in BagToSet(goroutines) : QueueInsert(g)
  \/ \E g \in BagToSet(goroutines) : UpdateDelete(g)
  \/ \E g \in BagToSet(goroutines) : patchDeployment(g)
  \/ \E g \in BagToSet(goroutines) : PatchSubmit(g)
  \/ \E i \in Edited : ExternalUpdate(i)
  \/ ConcurrentMapAccess
  \/ Tick

EditSpec == Init /\ [][EditNext]_vars

\* ------------------------------------------- one resource that changes
\* A specification for the countdown of one descriptor: the watch events are
\* MaxBurst modifications of ConfigMap "a", at any instants.
BurstEvent(s) ==
  [Type : {"MODIFIED"}, Name : IF s = "ConfigMap" THEN {NameA} ELSE {}]

BurstInit ==
  /\ now = 0
  /\ fatal = "none"
  /\ stream = [s \in Kinds |-> StreamIdle("watch")]
  /\ goroutines = EmptyBag
  /\ timers = << >>
  /\ changeTimers = << >>
  /\ updateTimers = << >>
  /\ deployments = InitialDeployments
  /\ budget = MaxBurst
  /\ log = {}
  /\ lastEvent = ""
  /\ modified = {}
  /\ notified = [d \in ChangeType |-> << >>]
  /\ burst = [d \in ChangeType |-> [clean |-> TRUE, first |-> -1, fires |-> 0, at |-> -1,
                                     calls |-> 0]]
  /\ settled = [d \in ChangeType |-> {}]
  /\ queued = {}
  /\ applied = EmptyBag
  /\ api = EmptyBag
  /\ patches = EmptyBag

BurstNext ==
  \/ \E s \in Kinds : Subscribe(s)
  \/ \E s \in Kinds : \E ev \in BurstEvent(s) : Receive(s, ev)
  \/ \E s \in Kinds : StreamReset(s)
  \/ \E s \in Kinds : StreamInsert(s)
  \/ \E id \in DOMAIN timers : Fire(id)
  \/ \E g \in BagToSet(goroutines) : ChangeDelete(g)
  \/ \E g \in BagToSet(goroutines) : findAndQueueDeployments(g)
  \/ \E g \in BagToSet(goroutines) : queueDeployment(g)
  \/ \E g \in BagToSet(goroutines) : QueueReset(g)
  \/ \E g \in BagToSet(goroutines) : QueueInsert(g)
  \/ \E g \in BagToSet(goroutines) : UpdateDelete(g)
  \/ \E g \in BagToSet(goroutines) : patchDeployment(g)
  \/ \E g \in BagToSet(goroutines) : PatchSubmit(g)
  \/ ConcurrentMapAccess
  \/ Tick

BurstSpec == BurstInit /\ [][BurstNext]_vars

\* ------------------------------------------- the patch of any Deployment
\* A specification for patchDeployment: the daemon receives one watch
\* event, and the Deployments of the namespace, web and api that both refer
\* to ConfigMap "a", carry, at both levels, any of these annotation maps: none, another annotation, the annotation of an
\* earlier patch, or both.
PatchAnnotations ==
  { Nil,
    [k \in {"owner"} |-> "ops"],
    [k \in {LastUpdate} |-> 0],
    [k \in {"owner", LastUpdate} |-> IF k = "owner" THEN "ops" ELSE 0] }
PatchCluster ==
  << AppsDeployment("web", 1,
       << Container(<< EnvFromSource(Ref(NameA), Nil) >>, << >>) >>),
     AppsDeployment("api", 1,
       << Container(<< >>, << EnvVar(EnvVarSource(Ref(NameA), Nil)) >>) >>) >>
PatchDeployments ==
  { [i \in DOMAIN PatchCluster |->
       [PatchCluster[i] EXCEPT !.Annotations = a, !.TemplateAnnotations = t]] :
      a \in PatchAnnotations, t \in PatchAnnotations }

PatchInit ==
  /\ now = 0
  /\ fatal = "none"
  /\ stream = [s \in Kinds |-> StreamIdle("watch")]
  /\ goroutines = EmptyBag
  /\ timers = << >>
  /\ changeTimers = << >>
  /\ updateTimers = << >>
  /\ deployments \in PatchDeployments
  /\ budget = 1
  /\ log = {}
  /\ lastEvent = ""
  /\ modified = {}
  /\ notified = [d \in ChangeType |-> << >>]
  /\ burst = [d \in ChangeType |-> [clean |-> TRUE, first |-> -1, fires |-> 0, at |-> -1,
                                     calls |-> 0]]
  /\ settled = [d \in ChangeType |-> {}]
  /\ queued = {}
  /\ applied = EmptyBag
  /\ api = EmptyBag
  /\ patches = EmptyBag

PatchSpec == PatchInit /\ [][ScanNext]_vars

\* ================================================================ claims

\* The Deployment names whose containers refer to descriptor d: a whole
\* import (envFrom) or a key reference (env) of d's kind and d's name.
Dependents(d) ==
  { deployments[i].Name : i \in
      { i \in DOMAIN deployments :
          \E c \in Range(deployments[i].Containers) :
            \/ \E e \in Range(c.EnvFrom) :
                 LET r == IF d.Type = "ConfigMap" THEN e.ConfigMapRef ELSE e.SecretRef
                 IN r # Nil /\ r.Name = d.Name
            \/ \E e \in Range(c.Env) :
                 /\ e.ValueFrom # Nil
                 /\ LET r == IF d.Type = "ConfigMap" THEN e.ValueFrom.ConfigMapKeyRef
                                                     ELSE e.ValueFrom.SecretKeyRef
                    IN r # Nil /\ r.Name = d.Name } }

\* ---------------------------------------------------------------------- C1
\* The notifications of d fall into bursts: a notification opens a burst when
\* it is the first of d or comes delay or more after the one before it.
Bursts(d) ==
  Cardinality({ k \in DOMAIN notified[d] :
                  k = 1 \/ notified[d][k] - notified[d][k - 1] >= delay })

\* C1: every burst of notifications of d with gaps below delay produces
\* exactly one findAndQueueDeployments(d), delay after the last notification
\* of the burst: there are no more calls for d than bursts of d; every call
\* comes delay after a notification of d that none followed in less than
\* delay; and once delay has passed since a notification of d that none
\* followed within delay, the call for it has been made.
ChangeDebounce ==
  \A d \in ChangeType :
    /\ burst[d].calls <= Bursts(d)
    /\ \A t \in settled[d] :
         \E k \in DOMAIN notified[d] :
           /\ notified[d][k] + delay = t
           /\ \A j \in DOMAIN notified[d] :
                ~(notified[d][k] < notified[d][j] /\ notified[d][j] < t)
    /\ \A k \in DOMAIN notified[d] :
         ( /\ now > notified[d][k] + delay
           /\ \A j \in DOMAIN notified[d] :
                ~(notified[d][k] < notified[d][j]
                    /\ notified[d][j] <= notified[d][k] + delay) )
           => notified[d][k] + delay \in settled[d]

\* ---------------------------------------------------------------------- C2
\* C2: at every instant each ChangeType has at most one armed change timer and
\* each Deployment key at most one armed update timer.
OneTimerPerKey ==
  \A i, j \in DOMAIN timers :
    (/\ timers[i].armed /\ timers[j].armed
     /\ timers[i].fn = timers[j].fn
     /\ timers[i].arg = timers[j].arg) => i = j

\* ---------------------------------------------------------------------- C3
\* The instants of the queueDeployment calls for key r.
QueuedAt(r) == { q.at : q \in { x \in queued : x.dep = r } }
\* The number of patchDeployment(r) calls so far.
Applied(r) ==
  BagCardinality([a \in { x \in BagToSet(applied) : x.dep = r } |-> CopiesIn(a, applied)])

\* C3: a Deployment key queued by two different settled changes, all its
\* queueDeployment calls less than delay apart, gets at most one
\* patchDeployment call.
UpdateCoalescing ==
  \A q1, q2 \in queued :
    (/\ q1.dep = q2.dep /\ q1.by # q2.by
     /\ \A t1, t2 \in QueuedAt(q1.dep) : t1 - t2 < delay)
    => Applied(q1.dep) <= 1

\* ---------------------------------------------------------------------- C4
\* C4: a failed List leaves the process running.
ListFailureRecoverable ==
  (\E c \in BagToSet(api) : c.op = "list" /\ ~c.ok) => Running

\* ---------------------------------------------------------------------- C5
\* The step is a Get that failed for Deployment name n.
GetFailed(n) ==
  LET c == [op |-> "get", name |-> n, ok |-> FALSE, at |-> now]
  IN /\ c \in BagToSet(api')
     /\ \/ c \notin BagToSet(api)
        \/ CopiesIn(c, api') > CopiesIn(c, api)

\* C5: a patchDeployment whose Get fails logs the failure and does nothing
\* else: no patch is submitted, the process keeps running, both maps, the
\* timers and the stream goroutines are as they were, and only the failed
\* goroutine is gone.
FetchFailureRecoverable ==
  [][ \A n \in { deployments[i].Name : i \in DOMAIN deployments } :
        GetFailed(n) =>
          /\ << "error retrieving deployment %s: %+v", n >> \in log'
          /\ patches' = patches
          /\ deployments' = deployments
          /\ \A c \in BagToSet(api') : c.op = "patch" =>
               c \in BagToSet(api) /\ CopiesIn(c, api') = CopiesIn(c, api)
          /\ Running'
          /\ changeTimers' = changeTimers
          /\ updateTimers' = updateTimers
          /\ timers' = timers
          /\ stream' = stream
          /\ \E g \in BagToSet(goroutines) :
               /\ g.fn = "update" /\ g.pc = "get" /\ g.arg.Name = n
               /\ goroutines' = goroutines (-) One(g) ]_vars

\* After a failed Get the process is running, and a later change went all
\* the way to a submitted patch.
FetchFailureRecoverableWitness ==
  /\ Running
  /\ \E c \in BagToSet(api), p \in BagToSet(patches) :
       c.op = "get" /\ ~c.ok /\ p.at > c.at

\* ---------------------------------------------------------------------- C6
\* The countdown of descriptor d: its entry in changeTimers and its timers.
Countdown(d) ==
  << IF d \in DOMAIN changeTimers THEN changeTimers[d] ELSE 0,
     { << id, timers[id] >> : id \in
         { i \in DOMAIN timers : timers[i].fn = "change" /\ timers[i].arg = d } } >>

\* C6: the countdown of a descriptor d changes only in a step of its own (the
\* Reset or the insert of a delayedUpdate(d), the expiry of a timer of d, the
\* delete of a callback of d), never in a step taken for another descriptor;
\* and findAndQueueDeployments(d) is only ever called delay after a
\* notification of d itself.
DescriptorIsolation ==
  /\ [][ \A d \in ChangeType :
           Countdown(d)' # Countdown(d) =>
             \/ \E s \in Kinds :
                  /\ stream[s].change = d /\ stream[s].pc \in {"reset", "insert"}
                  /\ stream'[s].pc = "recv"
             \/ \E id \in DOMAIN timers :
                  /\ timers[id].arg = d /\ timers[id].armed /\ timers[id].when = now
                  /\ id \in DOMAIN timers' => ~timers'[id].armed
             \/ \E g \in BagToSet(goroutines) :
                  /\ g.fn = "change" /\ g.arg = d /\ g.pc = "delete"
                  /\ goroutines' = (goroutines (-) One(g)) (+) One([g EXCEPT !.pc = "list"])
       ]_vars
  /\ [](\A d \in ChangeType : \A t \in settled[d] :
          \E k \in DOMAIN notified[d] : notified[d][k] + delay = t)

\* The ConfigMap and the Secret of one name both have a countdown armed, with
\* different deadlines.
DescriptorIsolationWitness ==
  \E i, j \in DOMAIN timers :
    /\ timers[i].fn = "change" /\ timers[j].fn = "change"
    /\ timers[i].armed /\ timers[j].armed
    /\ timers[i].arg.Name = timers[j].arg.Name
    /\ timers[i].arg.Type # timers[j].arg.Type
    /\ timers[i].when # timers[j].when

\* ---------------------------------------------------------------------- C7
\* No callback of descriptor d is running.
Finished(d) == \A g \in BagToSet(goroutines) : ~(g.fn = "change" /\ g.arg = d)

\* C7: queueDeployment is called for a listed Deployment exactly when one of
\* its containers refers to the changed descriptor by kind and by name: every
\* call is for a dependent, and a callback that has run to its end has called
\* it, once its List had returned, for every dependent.
DependencyMatching ==
  /\ \A q \in queued : q.dep.Name \in Dependents(q.by)
  /\ \A d \in ChangeType :
       (Running /\ Finished(d)) =>
         \A t \in settled[d] : \A n \in Dependents(d) :
           \E q \in queued : q.by = d /\ q.at >= t /\ q.dep.Name = n

\* findAndQueueDeployments for ConfigMap "a" has run to its end over a web
\* that imports ConfigMap "ab" and reads a key of Secret "a", and has queued
\* api alone.
DependencyMatchingWitness ==
  LET d == [Type |-> "ConfigMap", Name |-> NameA] IN
    /\ Running /\ Finished(d) /\ settled[d] # {}
    /\ deployments[1].Containers =
         << Container(<< EnvFromSource(Ref(NameAB), Nil) >>,
                      << EnvVar(EnvVarSource(Nil, Ref(NameA))) >>) >>
    /\ { q.dep.Name : q \in { x \in queued : x.by = d } } = {"api"}

\* ---------------------------------------------------------------------- C8
\* d was notified once and nothing else was.
Single(d) ==
  /\ Len(notified[d]) = 1
  /\ \A d2 \in ChangeType \ {d} : notified[d2] = << >>

\* C8 as stated: after a single notification of d at t, queueDeployment is
\* called at t + delay, for the dependents of d, and patchDeployment at
\* t + 2 * delay, once for each of them; no patch is submitted at another
\* instant.
EndToEndDelay ==
  \A d \in ChangeType :
    Single(d) =>
      LET t == notified[d][1] IN
        /\ \A q \in queued :
             q.by = d /\ q.at = t + delay /\ q.dep.Name \in Dependents(d)
        /\ \A a \in BagToSet(applied) :
             /\ a.at = t + 2 * delay
             /\ a.dep.Name \in Dependents(d)
             /\ CopiesIn(a, applied) = 1
             /\ \E q \in queued : q.dep = a.dep /\ a.at = q.at + delay
        /\ \A p \in BagToSet(patches) : p.at = t + 2 * delay
        /\ (Running /\ now > t + delay) =>
             \A n \in Dependents(d) : \E q \in queued : q.dep.Name = n
        /\ (Running /\ now > t + 2 * delay) =>
             \A n \in Dependents(d) : \E a \in BagToSet(applied) : a.dep.Name = n

\* The List calls that returned the Deployments at instant t.
ListedAt(t) == \E c \in BagToSet(api) : c.op = "list" /\ c.ok /\ c.at = t

\* C8: after a single notification of d at t, findAndQueueDeployments(d) is
\* called at t + delay; queueDeployment is called when its List returns, at
\* t + delay or later, for the dependents of d; patchDeployment is called
\* delay after queueDeployment, once for each of them; and a patch is
\* submitted when Get and Patch have returned, 2 * delay after the
\* notification or later.
EndToEndDelayLowerBound ==
  \A d \in ChangeType :
    Single(d) =>
      LET t == notified[d][1] IN
        /\ settled[d] \subseteq {t + delay}
        /\ (Running /\ now > t + delay) => settled[d] = {t + delay}
        /\ \A q \in queued :
             /\ q.by = d /\ q.dep.Name \in Dependents(d)
             /\ q.at >= t + delay /\ ListedAt(q.at)
             /\ (Running /\ now > q.at + delay) =>
                  \E a \in BagToSet(applied) : a.dep = q.dep
        /\ \A a \in BagToSet(applied) :
             /\ a.dep.Name \in Dependents(d)
             /\ CopiesIn(a, applied) = 1
             /\ \A q \in queued : q.dep = a.dep => a.at = q.at + delay
             /\ \E q \in queued : q.dep = a.dep
        /\ \A p \in BagToSet(patches) :
             /\ p.at >= t + 2 * delay
             /\ \E a \in BagToSet(applied) : a.dep.Name = p.name /\ a.at <= p.at
        /\ (Running /\ settled[d] # {} /\ Finished(d)) =>
             \A n \in Dependents(d) : \E q \in queued : q.dep.Name = n

\* A single notification whose patch has been submitted, later than
\* 2 * delay after it: the List call took its time.
EndToEndDelayWitness ==
  \E d \in ChangeType :
    /\ Single(d)
    /\ \E q \in queued : q.at > notified[d][1] + delay
    /\ \E p \in BagToSet(patches) : p.at > notified[d][1] + 2 * delay

\* ---------------------------------------------------------------------- C9
\* C9: a watch event of a type other than MODIFIED changes no timer, no map
\* and no goroutine and is not counted as a notification; and every
\* descriptor that has a countdown, a notification or a callback came in a
\* MODIFIED event.
OnlyModified ==
  /\ [][ (budget' = budget - 1 /\ lastEvent' # "MODIFIED") =>
           UNCHANGED << timers, changeTimers, updateTimers, stream, goroutines,
                        notified, settled, log, fatal >> ]_vars
  /\ [](\A d \in ChangeType :
          (\/ d \in DOMAIN changeTimers
           \/ \E id \in DOMAIN timers : timers[id].arg = d
           \/ \E s \in Kinds : stream[s].change = d
           \/ \E g \in BagToSet(goroutines) : g.arg = d
           \/ notified[d] # << >>
           \/ settled[d] # {}) => d \in modified)

\* An event that is not MODIFIED arrived while a countdown was armed.
OnlyModifiedWitness ==
  /\ lastEvent \in EventTypes \ {"MODIFIED"}
  /\ \E id \in DOMAIN timers : timers[id].armed

\* --------------------------------------------------------------------- C10
\* C10: once a watch could not be opened the process is not running.
SubscriptionFatal ==
  (\E c \in BagToSet(api) : c.op = "watch" /\ ~c.ok) => ~Running

\* One watch was open with a countdown armed when the other could not be
\* opened.
SubscriptionFatalWitness ==
  /\ \E c \in BagToSet(api) : c.op = "watch" /\ ~c.ok
  /\ \E c \in BagToSet(api) : c.op = "watch" /\ c.ok
  /\ \E id \in DOMAIN timers : timers[id].armed

\* --------------------------------------------------------------------- C11
\* The keys of an annotation map (none when the map is nil).
Keys(annotations) == IF annotations = Nil THEN {} ELSE DOMAIN annotations

\* C11: in every patchDeployment the target differs from the fetched
\* Deployment in nothing but the configmaster/last.update annotation: at both
\* levels the map exists afterwards, holds under that key the time at which
\* the Deployment was fetched (one value for both levels, an instant at which
\* a Get of that name returned, not after the patch is submitted) and every
\* other annotation as it was, and every other field is as it was; and the
\* patch that is submitted holds, at each level, that annotation alone (or
\* nothing, where the fetched value was already that time).
AnnotationOnly ==
  \A p \in BagToSet(patches) :
    /\ p.stamp <= p.at
    /\ \E c \in BagToSet(api) :
         c.op = "get" /\ c.ok /\ c.name = p.name /\ c.at = p.stamp
    /\ \A f \in DOMAIN p.base \ MapFields : p.target[f] = p.base[f]
    /\ \A f \in MapFields :
         /\ p.target[f] # Nil
         /\ DOMAIN p.target[f] = Keys(p.base[f]) \cup {LastUpdate}
         /\ p.target[f][LastUpdate] = p.stamp
         /\ \A k \in Keys(p.base[f]) \ {LastUpdate} : p.target[f][k] = p.base[f][k]
    /\ DOMAIN p.body \subseteq MapFields
    /\ \A f \in DOMAIN p.body :
         /\ DOMAIN p.body[f] = {LastUpdate}
         /\ p.body[f][LastUpdate] = p.stamp
    /\ \A f \in MapFields \ DOMAIN p.body :
         /\ LastUpdate \in Keys(p.base[f])
         /\ p.base[f][LastUpdate] = p.stamp

\* A patch was submitted, some time after the Get returned, for a Deployment
\* that was fetched with another annotation and the stamp of an earlier patch
\* at the top level and with no annotations on its pod template.
AnnotationOnlyWitness ==
  \E p \in BagToSet(patches) :
    /\ Keys(p.base.Annotations) = {"owner", LastUpdate}
    /\ p.base.Annotations[LastUpdate] # p.stamp
    /\ p.base.TemplateAnnotations = Nil
    /\ p.stamp < p.at

\* --------------------------------------------------------------------- C12
\* The goroutines that are between the lookup in changeTimers and the Reset
\* or the insert that follows it (main.go:118-123).
InsideChangeMap == Cardinality({ s \in Kinds : stream[s].pc \in {"reset", "insert"} })

\* The goroutines that are between the lookup in updateTimers and the Reset
\* or the insert that follows it (main.go:174-179).
InsideUpdateMap ==
  Copies({ g \in BagToSet(goroutines) : g.fn = "change" /\ g.pc \in {"qreset", "qinsert"} })

\* C12: the lookup and the Reset or insert that follows it are atomic on each
\* map: at most one goroutine is between the two, and while one is, no
\* callback is about to delete from that map.
MapMutualExclusion ==
  /\ InsideChangeMap <= 1
  /\ InsideUpdateMap <= 1
  /\ InsideChangeMap = 1 =>
       Copies({ g \in BagToSet(goroutines) : g.fn = "change" /\ g.pc = "delete" }) = 0
  /\ InsideUpdateMap = 1 =>
       Copies({ g \in BagToSet(goroutines) : g.fn = "update" /\ g.pc = "delete" }) = 0

\* --------------------------------------------------------------------- C13
\* No callback is running, both streams wait for an event and no timer is due: every
\* callback that was started has removed its entry and returned.
Stable ==
  /\ goroutines = EmptyBag
  /\ \A s \in Kinds : stream[s].pc = "recv"
  /\ \A id \in DOMAIN timers : timers[id].armed => timers[id].when > now

\* The map that holds the timers of function fn.
TimerMap(fn) == IF fn = "change" THEN changeTimers ELSE updateTimers

\* C13: a key is in its map exactly while its countdown is pending: between
\* the steps of the goroutines, every armed timer is the entry of its key in
\* its map, and every entry of a map is an armed timer of that key.
EntryLifecycle ==
  Stable =>
    /\ \A id \in DOMAIN timers :
         timers[id].armed =>
           /\ timers[id].arg \in DOMAIN TimerMap(timers[id].fn)
           /\ TimerMap(timers[id].fn)[timers[id].arg] = id
    /\ \A fn \in {"change", "update"} : \A k \in DOMAIN TimerMap(fn) :
         /\ TimerMap(fn)[k] \in DOMAIN timers
         /\ timers[TimerMap(fn)[k]].armed
         /\ timers[TimerMap(fn)[k]].arg = k

\* --------------------------------------------------------------------- C14
\* Container c holds a reference to descriptor d.
Refers(c, d) ==
  \/ \E e \in Range(c.EnvFrom) :
       LET r == IF d.Type = "ConfigMap" THEN e.ConfigMapRef ELSE e.SecretRef
       IN r # Nil /\ r.Name = d.Name
  \/ \E e \in Range(c.Env) :
       /\ e.ValueFrom # Nil
       /\ LET r == IF d.Type = "ConfigMap" THEN e.ValueFrom.ConfigMapKeyRef
                                           ELSE e.ValueFrom.SecretKeyRef
          IN r # Nil /\ r.Name = d.Name

\* The step is a List that succeeded in callback g.
Listed(g) ==
  /\ g.fn = "change" /\ g.pc = "list"
  /\ CopiesIn(g, goroutines') < CopiesIn(g, goroutines)
  /\ Running'

\* C14: one findAndQueueDeployments(d) calls queueDeployment at most once
\* for a listed Deployment, however many of its containers and entries refer
\* to d, and goes on to the Deployments listed after it: the calls it makes
\* are the listed Deployments that refer to d, each once, in list order.
ShortCircuit ==
  /\ [](\A g \in BagToSet(goroutines) :
          \A i, j \in DOMAIN g.calls : g.calls[i].Name = g.calls[j].Name => i = j)
  /\ [][ \A g \in BagToSet(goroutines) :
           Listed(g) =>
             LET calls == SelectSeq(deployments,
                            LAMBDA x : \E c \in Range(x.Containers) : Refers(c, g.arg))
             IN goroutines' = (goroutines (-) One(g)) (+)
                  (IF calls = << >> THEN EmptyBag
                   ELSE One([g EXCEPT !.pc = "queue", !.calls = calls])) ]_vars

\* A callback for ConfigMap "a" has listed a first Deployment with two
\* containers that both refer to it, the first of them by a whole import and
\* by a key reference, and is about to call queueDeployment for that
\* Deployment and then for the one listed after it.
ShortCircuitWitness ==
  LET d == [Type |-> "ConfigMap", Name |-> NameA] IN
  \E g \in BagToSet(goroutines) :
    /\ g.fn = "change" /\ g.pc = "queue" /\ g.arg = d
    /\ Len(deployments[1].Containers) = 2
    /\ \A c \in Range(deployments[1].Containers) : Refers(c, d)
    /\ \E e \in Range(deployments[1].Containers[1].EnvFrom) : MatchEnvFrom(d, e)
    /\ \E e \in Range(deployments[1].Containers[1].Env) : MatchEnv(d, e)
    /\ g.calls = << deployments[1], deployments[2] >>

\* --------------------------------------------------------------------- C15
\* The step is the Reset or the insert of a queueDeployment in callback g.
Queues(g) ==
  /\ g.fn = "change" /\ g.pc \in {"qreset", "qinsert"}
  /\ CopiesIn(g, goroutines') < CopiesIn(g, goroutines)

\* C15: queueDeployment of a Deployment listed with name n and version v acts
\* on the countdown of the key (n, v) alone: it arms a timer of that key,
\* keeps the entry and the timer of every other key, those of (n, v1) with
\* v1 # v too, as they are; and every patchDeployment(r) comes delay after a
\* queueDeployment call for that same key r.
VersionKeyed ==
  /\ [][ \A g \in BagToSet(goroutines) :
           Queues(g) =>
             LET key == [Name |-> Head(g.calls).Name,
                         ResourceVersion |-> Head(g.calls).ResourceVersion]
             IN /\ \A r \in DOMAIN updateTimers \ {key} :
                     r \in DOMAIN updateTimers' /\ updateTimers'[r] = updateTimers[r]
                /\ \A id \in DOMAIN timers :
                     (timers[id].fn = "update" /\ timers[id].arg # key) =>
                       id \in DOMAIN timers' /\ timers'[id] = timers[id]
                /\ \E id \in DOMAIN timers' :
                     /\ timers'[id] = [fn |-> "update", arg |-> key,
                                       armed |-> TRUE, when |-> now + delay]
                     /\ g.pc = "qinsert" => updateTimers'[key] = id
                     /\ g.pc = "qreset" => id = g.timer ]_vars
  /\ [](\A a \in BagToSet(applied) :
          \E q \in queued : q.dep = a.dep /\ q.at + delay = a.at)

\* Deployment web was queued at version 1 and, a moment later and edited in
\* between, at version 2: patchDeployment ran for each key at its own time.
VersionKeyedWitness ==
  \E a1, a2 \in BagToSet(applied) :
    /\ a1.dep.Name = a2.dep.Name
    /\ a1.dep.ResourceVersion < a2.dep.ResourceVersion
    /\ a1.at < a2.at
    /\ a2.at < a1.at + delay

\* --------------------------------------------------------------------- C16
\* The number of calls of op for name so far that ended in one of oks.
Calls(op, name, oks) ==
  BagCardinality([c \in { x \in BagToSet(api) :
                            x.op = op /\ x.name = name /\ x.ok \in oks }
                    |-> CopiesIn(c, api)])

\* The number of patchDeployment calls for name up to instant t.
AppliedBy(name, t) ==
  BagCardinality([a \in { x \in BagToSet(applied) : x.dep.Name = name /\ x.at <= t }
                    |-> CopiesIn(a, applied)])

\* The number of List calls and the number of notifications so far.
Lists ==
  BagCardinality([c \in { x \in BagToSet(api) : x.op = "list" } |-> CopiesIn(c, api)])
Notifications ==
  LET RECURSIVE Sum(_)
      Sum(S) == IF S = {} THEN 0
                ELSE LET d == CHOOSE x \in S : TRUE IN Len(notified[d]) + Sum(S \ {d})
  IN Sum(ChangeType)

\* The line of the log that reports the failed call c.
FailureLine(c) ==
  IF c.op = "get" THEN << "error retrieving deployment %s: %+v", c.name >>
  ELSE IF c.op = "patch" THEN << "error patching deployment %s: %+v", c.name >>
  ELSE << "error listing deployments: %+v", c.name >>

\* C16: nothing is retried: a patchDeployment makes at most one Get and,
\* after a Get that succeeded, at most one Patch; the callbacks make no more
\* List calls than countdowns were armed; a call that fails arms no timer and
\* changes no map; every failed List, Get and Patch is in the log; and a
\* patchDeployment that ends when its Get has returned has logged why (the
\* Get failed, or the patch could not be prepared) and makes no Patch call.
NoRetry ==
  /\ [](\A c \in BagToSet(api) :
          /\ c.op = "get" =>
               Calls("get", c.name, BOOLEAN) <= AppliedBy(c.name, now)
          /\ c.op = "patch" =>
               Calls("patch", c.name, BOOLEAN) <= Calls("get", c.name, {TRUE})
          /\ c.op = "list" => Lists <= Notifications
          /\ (c.op \in {"list", "get", "patch"} /\ ~c.ok) => FailureLine(c) \in log)
  /\ [][ (\E c \in BagToSet(api') :
             /\ c.op \in {"list", "get", "patch"} /\ ~c.ok
             /\ CopiesIn(c, api') > CopiesIn(c, api)) =>
           UNCHANGED << timers, changeTimers, updateTimers >> ]_vars
  /\ [][ \A g \in BagToSet(goroutines) :
           (g.fn = "update" /\ g.pc = "get" /\ goroutines' = goroutines (-) One(g)) =>
             /\ \/ << "error retrieving deployment %s: %+v", g.arg.Name >> \in log'
                \/ \E outcome \in Prepared \ {"patch"} :
                     PrepareLine(outcome, g.arg.Name) \in log'
             /\ \A c \in BagToSet(api') : c.op = "patch" =>
                  c \in BagToSet(api) /\ CopiesIn(c, api') = CopiesIn(c, api)
             /\ UNCHANGED << patches, deployments, timers, changeTimers, updateTimers >>
       ]_vars

\* --------------------------------------------------------------------- C17
\* findAndQueueDeployments(d) has been called delay or more after the last
\* notification of d.
Served(d) == \E t \in settled[d] : t >= Last(notified[d]) + delay

\* C17: every notification of d is followed, delay or more later, by a
\* findAndQueueDeployments(d): unless a watch could not be opened, a notified
\* descriptor has been served, or the process is running and the call is not
\* yet overdue.
NoNotificationLost ==
  \A d \in ChangeType :
    (notified[d] # << >> /\ fatal # "watch") =>
      \/ Served(d)
      \/ Running /\ now <= Last(notified[d]) + delay

\* --------------------------------------------------------------------- C18
\* The step is one of patchDeployment in callback g: the Get or the Patch.
Patches(g) ==
  /\ g.fn = "update" /\ g.pc \in {"get", "patch"}
  /\ CopiesIn(g, goroutines') < CopiesIn(g, goroutines)

\* C18: patchDeployment is called for a key (n, v) only when, delay or more
\* before, the scan of a change d queued the Deployment n listed at version v
\* and n refers to d; Get and Patch are only called, and a patch only
\* submitted, for a name in such a patchDeployment call; and the steps of
\* patchDeployment arm and reset no timer, change neither map and start no
\* goroutine.
PatchCausality ==
  /\ [](\A a \in BagToSet(applied) :
          \E q \in queued :
            /\ q.dep = a.dep
            /\ q.at + delay <= a.at
            /\ q.dep.Name \in Dependents(q.by)
            /\ \E t \in settled[q.by] : t <= q.at)
  /\ [](\A c \in BagToSet(api) :
          c.op \in {"get", "patch"} => AppliedBy(c.name, c.at) >= 1)
  /\ [](\A p \in BagToSet(patches) : AppliedBy(p.name, p.at) >= 1)
  /\ [][ \A g \in BagToSet(goroutines) :
           Patches(g) =>
             /\ UNCHANGED << timers, changeTimers, updateTimers, stream >>
             /\ \A h \in BagToSet(goroutines') :
                  \/ CopiesIn(h, goroutines') <= CopiesIn(h, goroutines)
                  \/ h = [g EXCEPT !.pc = "patch", !.obj = h.obj] ]_vars

\* A patch was submitted while the countdown of a later change was armed, and
\* no call was made for Deployment db, which refers to nothing.
PatchCausalityWitness ==
  /\ \E p \in BagToSet(patches) : \E id \in DOMAIN timers :
       timers[id].armed /\ timers[id].when > p.at
  /\ \A c \in BagToSet(api) : c.name # "db"
  /\ \A q \in queued : q.dep.Name # "db"

\* --------------------------------------------------------------------- C19
\* Nothing is pending: no goroutine of a timer runs, both streams wait for
\* their next event, no timer is armed and both maps are empty.
Idle ==
  /\ goroutines = EmptyBag
  /\ \A s \in Kinds : stream[s].pc = "recv"
  /\ \A id \in DOMAIN timers : ~timers[id].armed
  /\ changeTimers = << >>
  /\ updateTimers = << >>

\* No watch event is left to arrive.
EventsOver == budget = 0 \/ now + delay > MaxTime

\* C19: once the events have stopped and both watches are open, the process
\* comes to rest whatever List, Get and Patch return: every timer has fired,
\* every callback has returned and both maps are empty; and in a process at
\* rest nothing happens but the passing of time until the next event: no
\* findAndQueueDeployments, no patchDeployment, no timer and no map entry.
Quiescence ==
  /\ [](EventsOver => <>(fatal = "watch" \/ Idle))
  /\ [][ (Running /\ Idle /\ budget' = budget) =>
           /\ Idle'
           /\ UNCHANGED << settled, applied, queued, api, patches, timers >> ]_vars
====
